---- MODULE Spec2Model ----
(***************************************************************************)
(* ModelGuard: the quality-scoring pipeline (CodeQualityMetric.score with  *)
(* extract_relevant_files and ask_llm), the regex search over the artifact *)
(* table (post_search_by_regex) and the artifact update with its merge     *)
(* (put_artifact_update).                                                  *)
(*                                                                         *)
(* Python strings are sequences of one-character strings, so that lower(), *)
(* endswith(), substring tests and the regular expression search are       *)
(* computed character by character.  JSON / DynamoDB / Python values are   *)
(* records [kind, str, num, map]; numbers are held in hundredths.          *)
(***************************************************************************)
EXTENDS Integers, Sequences, FiniteSets, TLC

\* ------------------------------------------------------------------------
\* Strings
\* ------------------------------------------------------------------------

\* The characters the model uses, in code point order.
Alphabet ==
    << "\n", "(", ")", "-", ".", "/", "0", "1", "2", "3", "4", "5", "6",
       "7", "8", "9", "A", "B", "C", "D", "E", "F", "G", "H", "I", "J",
       "K", "L", "M", "N", "O", "P", "Q", "R", "S", "T", "U", "V", "W",
       "X", "Y", "Z", "_", "a", "b", "c", "d", "e", "f", "g", "h", "i",
       "j", "k", "l", "m", "n", "o", "p", "q", "r", "s", "t", "u", "v",
       "w", "x", "y", "z" >>

Ord(c) == CHOOSE i \in 1..Len(Alphabet) : Alphabet[i] = c

Uppers ==
    << "A", "B", "C", "D", "E", "F", "G", "H", "I", "J", "K", "L", "M",
       "N", "O", "P", "Q", "R", "S", "T", "U", "V", "W", "X", "Y", "Z" >>

Lowers ==
    << "a", "b", "c", "d", "e", "f", "g", "h", "i", "j", "k", "l", "m",
       "n", "o", "p", "q", "r", "s", "t", "u", "v", "w", "x", "y", "z" >>

\* str.lower() on one character.
LowerChar(c) ==
    IF \E i \in 1..Len(Uppers) : Uppers[i] = c
    THEN Lowers[CHOOSE i \in 1..Len(Uppers) : Uppers[i] = c]
    ELSE c

\* str.lower()
Lower(s) == [i \in 1..Len(s) |-> LowerChar(s[i])]

\* str.endswith(suffix)
EndsWith(s, suffix) ==
    /\ Len(suffix) <= Len(s)
    /\ SubSeq(s, Len(s) - Len(suffix) + 1, Len(s)) = suffix

\* sub in s
Contains(s, sub) ==
    \E i \in 0..(Len(s) - Len(sub)) : SubSeq(s, i + 1, i + Len(sub)) = sub

\* s < t for Python strings: lexicographic by code point.
RECURSIVE StrLess(_, _)
StrLess(s, t) ==
    IF t = <<>> THEN FALSE
    ELSE IF s = <<>> THEN TRUE
    ELSE IF Ord(s[1]) # Ord(t[1]) THEN Ord(s[1]) < Ord(t[1])
    ELSE StrLess(Tail(s), Tail(t))

\* text[:n]
Truncate(s, n) == SubSeq(s, 1, IF Len(s) < n THEN Len(s) ELSE n)

\* "\n".join(parts)
RECURSIVE JoinNewline(_)
JoinNewline(parts) ==
    IF parts = <<>> THEN <<>>
    ELSE IF Len(parts) = 1 THEN parts[1]
    ELSE parts[1] \o << "\n" >> \o JoinNewline(Tail(parts))

\* ------------------------------------------------------------------------
\* Values: what json.loads, DynamoDB and dict.get hand to the code
\* ------------------------------------------------------------------------

\* A dict is a sequence of [key, val] entries with distinct keys, in
\* insertion order.
EmptyMap == << >>
Entry(k, v) == [key |-> k, val |-> v]

NullV == [kind |-> "null", str |-> <<>>, num |-> 0, map |-> EmptyMap]
StrV(s) == [kind |-> "str", str |-> s, num |-> 0, map |-> EmptyMap]
\* A finite number, in hundredths.
NumV(n) == [kind |-> "num", str |-> <<>>, num |-> n, map |-> EmptyMap]
BoolV(b) == [kind |-> "bool", str |-> <<>>, num |-> IF b THEN 1 ELSE 0, map |-> EmptyMap]
\* json.loads accepts the literals NaN and Infinity.
NanV == [kind |-> "nan", str |-> <<>>, num |-> 0, map |-> EmptyMap]
InfV == [kind |-> "inf", str |-> <<>>, num |-> 1, map |-> EmptyMap]
\* An integer literal too large for a float.
BigIntV == [kind |-> "bigint", str |-> <<>>, num |-> 0, map |-> EmptyMap]
ListV == [kind |-> "list", str |-> <<>>, num |-> 0, map |-> EmptyMap]
MapV(m) == [kind |-> "map", str |-> <<>>, num |-> 0, map |-> m]

\* isinstance(v, str), isinstance(v, dict)
IsStr(v) == v.kind = "str"
IsDict(v) == v.kind = "map"

\* key in d
HasKey(d, key) == \E i \in 1..Len(d) : d[i].key = key

\* d.get(key): None when the key is absent.
Get(d, key) ==
    IF HasKey(d, key) THEN d[CHOOSE i \in 1..Len(d) : d[i].key = key].val ELSE NullV

\* d[key] = v: a present key keeps its place, a new one goes last.
Put(d, key, v) ==
    IF HasKey(d, key)
    THEN [i \in 1..Len(d) |-> IF d[i].key = key THEN Entry(key, v) ELSE d[i]]
    ELSE Append(d, Entry(key, v))

\* The keys of d.
Keys(d) == {d[i].key : i \in 1..Len(d)}

\* ------------------------------------------------------------------------
\* float(): Python's coercion of a value to a float
\* ------------------------------------------------------------------------

Digits == << "0", "1", "2", "3", "4", "5", "6", "7", "8", "9" >>

IsDigit(c) == \E i \in 1..Len(Digits) : Digits[i] = c
DigitVal(c) == (CHOOSE i \in 1..Len(Digits) : Digits[i] = c) - 1

AllDigits(s) == \A i \in 1..Len(s) : IsDigit(s[i])

\* The integer a digit string denotes.
RECURSIVE DigitsVal(_)
DigitsVal(s) ==
    IF s = <<>> THEN 0
    ELSE DigitsVal(SubSeq(s, 1, Len(s) - 1)) * 10 + DigitVal(s[Len(s)])

\* A float: finite (num, in hundredths), nan, or inf (num is the sign).
Finite(n) == [exc |-> "none", fk |-> "finite", num |-> n]
Raises(e) == [exc |-> e, fk |-> "finite", num |-> 0]

\* The fractional digits of a literal, in hundredths (two digits are kept).
FracVal(s) ==
    IF s = <<>> THEN 0
    ELSE IF Len(s) = 1 THEN DigitVal(s[1]) * 10
    ELSE DigitVal(s[1]) * 10 + DigitVal(s[2])

\* float(s) of an unsigned literal: "nan", "inf", "infinity", or
\* digits [ "." digits ] with a digit on one side of the point at least.
UnsignedFloat(s) ==
    LET l == Lower(s)
        dot == IF \E i \in 1..Len(s) : s[i] = "."
               THEN CHOOSE i \in 1..Len(s) : s[i] = "." /\ \A j \in 1..(i - 1) : s[j] # "."
               ELSE Len(s) + 1
        ip == SubSeq(s, 1, dot - 1)
        fp == SubSeq(s, dot + 1, Len(s))
    IN  IF l = << "n", "a", "n" >> THEN [exc |-> "none", fk |-> "nan", num |-> 0]
        ELSE IF l = << "i", "n", "f" >> \/ l = << "i", "n", "f", "i", "n", "i", "t", "y" >>
             THEN [exc |-> "none", fk |-> "inf", num |-> 1]
        ELSE IF AllDigits(ip) /\ AllDigits(fp) /\ Len(ip) + Len(fp) > 0
             THEN Finite(DigitsVal(ip) * 100 + FracVal(fp))
        ELSE Raises("ValueError")

\* float(s) for a string: an optional sign, then an unsigned literal.
ParseFloat(s) ==
    IF s # <<>> /\ s[1] = "-"
    THEN LET r == UnsignedFloat(Tail(s))
         IN  IF r.exc = "none" THEN [r EXCEPT !.num = 0 - r.num] ELSE r
    ELSE UnsignedFloat(s)

\* float(v): what code_quality_metric.py line 118 evaluates.
Float(v) ==
    CASE v.kind = "num" -> Finite(v.num)
      [] v.kind = "bool" -> Finite(v.num * 100)
      [] v.kind = "nan" -> [exc |-> "none", fk |-> "nan", num |-> 0]
      [] v.kind = "inf" -> [exc |-> "none", fk |-> "inf", num |-> v.num]
      [] v.kind = "bigint" -> Raises("OverflowError")
      [] v.kind = "str" -> ParseFloat(v.str)
      [] OTHER -> Raises("TypeError")

\* ------------------------------------------------------------------------
\* src/storage/file_extraction.py
\* ------------------------------------------------------------------------
\* A dict of path -> content is a sequence of [name, content] entries with
\* distinct names, in insertion order.  An archive is [opens, members]; a
\* member is [name, isfile, readable, bytes].

\* A byte that does not decode as UTF-8.
BadByte == "xFF"

\* bytes.decode("utf-8", errors="ignore")
DecodeIgnore(bytes) == SelectSeq(bytes, LAMBDA b : b # BadByte)

\* files[name] = content
DictSet(files, name, content) ==
    IF \E i \in 1..Len(files) : files[i].name = name
    THEN [i \in 1..Len(files) |->
            IF files[i].name = name THEN [name |-> name, content |-> content]
            ELSE files[i]]
    ELSE Append(files, [name |-> name, content |-> content])

\* The loop over the archive's regular files (lines 40-51).
RECURSIVE ExtractMembers(_, _, _)
ExtractMembers(members, files, max_chars) ==
    IF members = <<>> THEN files
    ELSE LET m == members[1]
         IN  IF m.isfile /\ m.readable
             THEN ExtractMembers(Tail(members),
                      DictSet(files, m.name, Truncate(DecodeIgnore(m.bytes), max_chars)),
                      max_chars)
             ELSE ExtractMembers(Tail(members), files, max_chars)

\* extract_files_from_tar: an archive that cannot be opened yields {}.
extract_files_from_tar(tar, max_chars) ==
    IF tar.opens THEN ExtractMembers(tar.members, <<>>, max_chars) ELSE <<>>

README == << "r", "e", "a", "d", "m", "e" >>
README_MD == << "r", "e", "a", "d", "m", "e", ".", "m", "d" >>

\* is_readme (lines 86-88)
is_readme(name) ==
    LET n == Lower(name)
    IN  Contains(n, README) \/ EndsWith(n, README_MD) \/ EndsWith(n, README)

\* The filter of lines 91-100.
IsCandidate(name, include_ext, prioritize_readme) ==
    LET lower == Lower(name)
    IN  \/ prioritize_readme /\ is_readme(lower)
        \/ \E i \in 1..Len(include_ext) : EndsWith(lower, include_ext[i])

\* The sort key without the README rank of line 105.
SortRankFlat(name, prioritize_readme) == 1

\* The sort key of lines 104-107: (0 for a README, else 1; lower-cased path).
SortRank(name, prioritize_readme) ==
    IF prioritize_readme /\ is_readme(name) THEN 0 ELSE 1

KeyLess(a, b, prioritize_readme) ==
    \/ SortRank(a.name, prioritize_readme) < SortRank(b.name, prioritize_readme)
    \/ /\ SortRank(a.name, prioritize_readme) = SortRank(b.name, prioritize_readme)
       /\ StrLess(Lower(a.name), Lower(b.name))

\* list.sort is stable: an entry goes before the first entry with a
\* strictly greater key.
InsertSorted(sorted, x, prioritize_readme) ==
    LET before == {i \in 1..Len(sorted) : KeyLess(x, sorted[i], prioritize_readme)}
        pos == IF before = {} THEN Len(sorted) + 1
               ELSE CHOOSE i \in before : \A j \in before : i <= j
    IN  SubSeq(sorted, 1, pos - 1) \o << x >> \o SubSeq(sorted, pos, Len(sorted))

RECURSIVE SortCandidates(_, _, _)
SortCandidates(candidates, sorted, prioritize_readme) ==
    IF candidates = <<>> THEN sorted
    ELSE SortCandidates(Tail(candidates),
                        InsertSorted(sorted, candidates[1], prioritize_readme),
                        prioritize_readme)

\* candidates[:n], n of either sign.
SliceTo(s, n) ==
    IF n >= 0 THEN SubSeq(s, 1, IF Len(s) < n THEN Len(s) ELSE n)
    ELSE SubSeq(s, 1, IF Len(s) + n > 0 THEN Len(s) + n ELSE 0)

\* select_relevant_files (lines 67-113)
select_relevant_files(all_files, include_ext, max_files, prioritize_readme) ==
    LET candidates ==
            SelectSeq(all_files,
                      LAMBDA f : IsCandidate(f.name, include_ext, prioritize_readme))
    IN  SliceTo(SortCandidates(candidates, <<>>, prioritize_readme), max_files)

\* extract_relevant_files (lines 127-151)
extract_relevant_files(tar, include_ext, max_files, max_chars, prioritize_readme) ==
    select_relevant_files(extract_files_from_tar(tar, max_chars),
                          include_ext, max_files, prioritize_readme)

\* ------------------------------------------------------------------------
\* src/utils/llm_analysis.py
\* ------------------------------------------------------------------------

\* The evaluator instructions, already stripped (lines 169-176); the text
\* itself plays no part in the control flow.
Instructions(metric_name, score_name) == metric_name \o << "\n" >> \o score_name

\* build_llm_prompt (lines 113-138)
RECURSIVE SectionParts(_)
SectionParts(sections) ==
    IF sections = <<>> THEN <<>>
    ELSE << << "=", "=", "=", " " >> \o sections[1].name \o << " ", "=", "=", "=", "\n" >>,
            sections[1].content,
            << "\n" >> >> \o SectionParts(Tail(sections))

build_llm_prompt(instructions, sections) ==
    JoinNewline(<< instructions \o << "\n", "\n" >> >> \o SectionParts(sections))

\* build_file_analysis_prompt (lines 161-183): one section per file,
\* titled "FILE: <path>".
build_file_analysis_prompt(metric_name, score_name, files) ==
    build_llm_prompt(
        Instructions(metric_name, score_name),
        [i \in 1..Len(files) |->
            [name |-> << "F", "I", "L", "E", ":", " " >> \o files[i].name,
             content |-> files[i].content]])

\* What Bedrock does with one invoke_model call:
\*   status  "ok", "ClientError", or "Error" (any other exception)
\*   shape   of the response body: "badjson", "nocontent" (no "content"
\*           key), "emptycontent" (content = []), "notext" (content[0] has
\*           no "text"), "text"
\*   isJson  whether the completion text parses as JSON, and to what (val)
Reply(status, shape, isJson, val) ==
    [status |-> status, shape |-> shape, isJson |-> isJson, val |-> val]

Returned(v) == [raised |-> FALSE, value |-> v]
Thrown == [raised |-> TRUE, value |-> NullV]

\* ask_llm(prompt, return_json=True) (lines 44-87): ClientError, KeyError
\* and JSONDecodeError become None; any other exception propagates.
ask_llm(prompt, reply) ==
    CASE reply.status = "ClientError" -> Returned(NullV)
      [] reply.status = "Error" -> Thrown
      [] reply.shape = "badjson" -> Returned(NullV)
      [] reply.shape = "nocontent" -> Returned(NullV)
      [] reply.shape = "emptycontent" -> Thrown
      [] reply.shape = "notext" -> Returned(NullV)
      [] OTHER -> IF reply.isJson THEN Returned(reply.val) ELSE Returned(NullV)

\* ------------------------------------------------------------------------
\* State
\* ------------------------------------------------------------------------

\* CodeQualityMetric.score
VARIABLES
    spc,        \* where the score call is
    s3key,      \* model.s3_key of the artifact being scored
    tmpExists,  \* whether the temporary archive file exists
    tmpTar,     \* what the temporary archive file holds
    files,      \* the selected files
    prompt,     \* the prompt built from them
    response,   \* what ask_llm returned
    retval,     \* the value a return statement has set, before finally runs
    result,     \* how the call ended: [status, key, val]
    dlCalls,    \* calls of download_artifact_from_s3
    llmCalls,   \* calls of invoke_model
    unlinkCalls, \* calls of os.unlink
    trace       \* the stages run so far, in order ("!" marks one that raised)

\* The artifacts table, shared by the two lambdas.
VARIABLES
    table,      \* artifact_id -> item, for the ids that are stored
    layout      \* how a scan pages the table: a sequence of pages of ids

\* post_search_by_regex.lambda_handler
VARIABLES
    qpc,        \* where the search request is
    qpattern,   \* pattern
    qfilter,    \* artifact_type_filter (<<>>: None or "")
    qlimit,     \* limit
    qcursor,    \* the page the next table.scan returns (ExclusiveStartKey)
    results,    \* results
    scanCount,  \* calls of table.scan
    qresp       \* the response: [status, error, body]

\* put_artifact_update.lambda_handler, one per concurrent invocation
VARIABLES
    upc,        \* where each invocation is
    ureq,       \* its request: [auth, id, type, body]
    uread,      \* the item as get_item returned it
    uitem,      \* the item after _apply_updates
    uresp,      \* its response
    ucalls      \* invocations started so far

\* select_relevant_files, called on one file set in two enumeration orders
VARIABLES
    selFiles,   \* all_files
    selAgain,   \* the same files as another archive enumerates them
    selExt,     \* include_ext
    selMax,     \* max_files
    selPri,     \* prioritize_readme
    selOut,     \* what the call on selFiles returned
    selOutAgain, \* what the call on selAgain returned
    selDone     \* which of the two calls have returned

scoreVars ==
    << spc, s3key, tmpExists, tmpTar, files, prompt, response, retval, result,
       dlCalls, llmCalls, unlinkCalls, trace >>

tableVars == << table, layout >>

searchVars == << qpc, qpattern, qfilter, qlimit, qcursor, results, scanCount, qresp >>

updateVars == << upc, ureq, uread, uitem, uresp, ucalls >>

selectVars == << selFiles, selAgain, selExt, selMax, selPri, selOut, selOutAgain, selDone >>

vars == << scoreVars, tableVars, searchVars, updateVars, selectVars >>

\* ------------------------------------------------------------------------
\* src/metrics/code_quality_metric.py: CodeQualityMetric.score
\* ------------------------------------------------------------------------

SCORE_FIELD == "code_quality"
INCLUDE_EXT == << << ".", "p", "y" >>, << ".", "t", "x", "t" >>, << ".", "m", "d" >> >>
MAX_FILES == 5
MAX_CHARS_PER_FILE == 4000

\* The fallback score of lines 89, 110, 123 and 130.
Fallback == Finite(0)

Member(name, isfile, readable, bytes) ==
    [name |-> name, isfile |-> isfile, readable |-> readable, bytes |-> bytes]

\* The fresh, empty file NamedTemporaryFile creates: not a gzip archive.
EmptyFile == [opens |-> FALSE, members |-> <<>>]

\* The bundles in the blob store, by s3_key.
RepoBundle ==
    [opens |-> TRUE,
     members |-> << Member(<< "m", "a", "i", "n", ".", "p", "y" >>, TRUE, TRUE,
                           << "x", BadByte, "y" >>),
                    Member(<< "s", "r", "c" >>, FALSE, TRUE, <<>>),
                    Member(<< "R", "E", "A", "D", "M", "E", ".", "m", "d" >>, TRUE, TRUE,
                           << "h", "i" >>),
                    Member(<< "l", "i", "b", ".", "p", "y" >>, TRUE, FALSE, << "z" >>),
                    Member(<< "i", "m", "g", ".", "p", "n", "g" >>, TRUE, TRUE,
                           << BadByte >>) >>]

ImagesBundle ==
    [opens |-> TRUE,
     members |-> << Member(<< "i", "m", "g", ".", "p", "n", "g" >>, TRUE, TRUE,
                           << BadByte >>) >>]

DocsBundle ==
    [opens |-> TRUE,
     members |-> << Member(<< "n", "o", "t", "e", "s", ".", "T", "X", "T" >>, TRUE, TRUE,
                           << "a", "b" >>),
                    Member(<< "d", "o", "c", "s", "/", "R", "e", "a", "d", "M", "e" >>,
                           TRUE, TRUE, <<>>) >>]

CorruptBundle == [opens |-> FALSE, members |-> <<>>]

BlobStore ==
    [k \in {"models/repo.tar.gz", "models/docs.tar.gz", "models/images.tar.gz",
             "models/corrupt.tar.gz"} |->
        CASE k = "models/repo.tar.gz" -> RepoBundle
          [] k = "models/docs.tar.gz" -> DocsBundle
          [] k = "models/images.tar.gz" -> ImagesBundle
          [] OTHER -> CorruptBundle]

\* The s3_key of the artifacts score is called with; one has no bundle.
S3Keys == DOMAIN BlobStore \cup {"models/missing.tar.gz"}

\* The completions the model may return for the score key.
ScoreValues ==
    { NumV(82), NumV(0), NumV(100), NumV(170), NumV(-30), BoolV(TRUE), NanV, InfV,
      BigIntV, NullV, ListV, MapV(EmptyMap),
      StrV(<< "0", ".", "9" >>), StrV(<< "-", "2" >>), StrV(<< "h", "i", "g", "h" >>),
      StrV(<< "n", "a", "n" >>), StrV(<<>>) }

Completions ==
    {MapV(<< Entry(SCORE_FIELD, v) >>) : v \in ScoreValues}
        \cup {MapV(<< Entry("other_field", NumV(90)) >>), MapV(EmptyMap), NullV, ListV,
              NumV(82), StrV(<< "0", ".", "9" >>)}

Replies ==
    {Reply("ok", "text", TRUE, v) : v \in Completions}
        \cup {Reply("ok", "text", FALSE, NullV)}
        \cup {Reply("ok", s, FALSE, NullV) :
                s \in {"badjson", "nocontent", "emptycontent", "notext"}}
        \cup {Reply(s, "text", FALSE, NullV) : s \in {"ClientError", "Error"}}

NoResult == [status |-> "none", key |-> "", val |-> Fallback]
ScoreDict(f) == [status |-> "returned", key |-> SCORE_FIELD, val |-> f]
ScoreRaised == [status |-> "raised", key |-> "", val |-> Fallback]

ScoreInit ==
    /\ spc = "idle"
    /\ s3key = ""
    /\ tmpExists = FALSE
    /\ tmpTar = EmptyFile
    /\ files = <<>>
    /\ prompt = <<>>
    /\ response = NullV
    /\ retval = Fallback
    /\ result = NoResult
    /\ dlCalls = 0
    /\ llmCalls = 0
    /\ unlinkCalls = 0
    /\ trace = <<>>

\* Line 62: the temporary file is created, before the try block is entered.
ScoreCall(key) ==
    /\ UNCHANGED << tableVars, searchVars, updateVars, selectVars >>
    /\ trace' = Append(trace, "tmpfile")
    /\ spc = "idle"
    /\ s3key' = key
    /\ tmpExists' = TRUE
    /\ tmpTar' = EmptyFile
    /\ spc' = "download"
    /\ UNCHANGED << files, prompt, response, retval, result, dlCalls, llmCalls,
                    unlinkCalls >>

\* Line 62 raising (no usable temporary directory, disk full): the
\* statement is outside the try block, so the exception leaves score.
ScoreTmpFault(key) ==
    /\ UNCHANGED << tableVars, searchVars, updateVars, selectVars >>
    /\ trace' = Append(trace, "tmpfile!")
    /\ spc = "idle"
    /\ s3key' = key
    /\ spc' = "done"
    /\ result' = ScoreRaised
    /\ UNCHANGED << tmpExists, tmpTar, files, prompt, response, retval, dlCalls,
                    llmCalls, unlinkCalls >>

\* download_artifact_from_s3 (lines 68-72) writing the bundle to tmp_tar.
download_artifact_from_s3(key) == BlobStore[key]

ScoreDownload ==
    /\ UNCHANGED << tableVars, searchVars, updateVars, selectVars >>
    /\ trace' = Append(trace, "download")
    /\ spc = "download"
    /\ s3key \in DOMAIN BlobStore
    /\ dlCalls' = dlCalls + 1
    /\ tmpTar' = download_artifact_from_s3(s3key)
    /\ spc' = "extract"
    /\ UNCHANGED << s3key, tmpExists, files, prompt, response, retval, result,
                    llmCalls, unlinkCalls >>

\* The download raising: control goes to the handler of line 125.
ScoreDownloadFault ==
    /\ UNCHANGED << tableVars, searchVars, updateVars, selectVars >>
    /\ trace' = Append(trace, "download!")
    /\ spc = "download"
    /\ dlCalls' = dlCalls + 1
    /\ spc' = "except"
    /\ UNCHANGED << s3key, tmpExists, tmpTar, files, prompt, response, retval,
                    result, llmCalls, unlinkCalls >>

\* ScoreExtract without the early return of lines 85-89.
ScoreExtractNoEmptyCheck ==
    /\ UNCHANGED << tableVars, searchVars, updateVars, selectVars >>
    /\ trace' = Append(trace, "extract")
    /\ spc = "extract"
    /\ files' = extract_relevant_files(tmpTar, INCLUDE_EXT, MAX_FILES,
                                       MAX_CHARS_PER_FILE, TRUE)
    /\ retval' = retval
    /\ spc' = "prompt"
    /\ UNCHANGED << s3key, tmpExists, tmpTar, prompt, response, result, dlCalls,
                    llmCalls, unlinkCalls >>

\* Lines 77-89: extraction, and the return when nothing was selected.
ScoreExtract ==
    /\ UNCHANGED << tableVars, searchVars, updateVars, selectVars >>
    /\ trace' = Append(trace, "extract")
    /\ spc = "extract"
    /\ files' = extract_relevant_files(tmpTar, INCLUDE_EXT, MAX_FILES,
                                       MAX_CHARS_PER_FILE, TRUE)
    /\ IF files' = <<>>
       THEN retval' = Fallback /\ spc' = "finally"
       ELSE retval' = retval /\ spc' = "prompt"
    /\ UNCHANGED << s3key, tmpExists, tmpTar, prompt, response, result, dlCalls,
                    llmCalls, unlinkCalls >>

\* Lines 94-98
ScorePrompt ==
    /\ UNCHANGED << tableVars, searchVars, updateVars, selectVars >>
    /\ trace' = Append(trace, "prompt")
    /\ spc = "prompt"
    /\ prompt' = build_file_analysis_prompt(
                    << "C", "o", "d", "e", " ", "Q", "u", "a", "l", "i", "t", "y" >>,
                    << "c", "o", "d", "e", "_", "q", "u", "a", "l", "i", "t", "y" >>,
                    files)
    /\ spc' = "ask"
    /\ UNCHANGED << s3key, tmpExists, tmpTar, files, response, retval, result,
                    dlCalls, llmCalls, unlinkCalls >>

\* Line 103: one ask_llm call; an exception it lets through goes to the
\* handler of line 125.
ScoreAsk(reply) ==
    /\ UNCHANGED << tableVars, searchVars, updateVars, selectVars >>
    /\ trace' = Append(trace, IF ask_llm(prompt, reply).raised THEN "ask!" ELSE "ask")
    /\ spc = "ask"
    /\ llmCalls' = llmCalls + 1
    /\ LET r == ask_llm(prompt, reply)
       IN  IF r.raised
           THEN response' = response /\ spc' = "except"
           ELSE response' = r.value /\ spc' = "validate"
    /\ UNCHANGED << s3key, tmpExists, tmpTar, files, prompt, retval, result,
                    dlCalls, unlinkCalls >>

\* ScoreOf with the value brought into [0.0, 1.0] before it is returned.
ScoreOfClamped(resp) ==
    IF ~IsDict(resp) \/ ~HasKey(resp.map, SCORE_FIELD)
    THEN Fallback
    ELSE LET f == Float(Get(resp.map, SCORE_FIELD))
         IN  IF f.exc \in {"TypeError", "ValueError"} THEN Fallback
             ELSE IF f.exc = "none" /\ f.fk = "finite" /\ f.num > 100
             THEN [f EXCEPT !.num = 100]
             ELSE IF f.exc = "none" /\ f.fk = "finite" /\ f.num < 0
             THEN [f EXCEPT !.num = 0]
             ELSE f

\* Lines 106-123: what the try block returns for a response, or the
\* exception float() lets through to line 125.
ScoreOf(resp) ==
    IF ~IsDict(resp) \/ ~HasKey(resp.map, SCORE_FIELD)
    THEN Fallback
    ELSE LET f == Float(Get(resp.map, SCORE_FIELD))
         IN  IF f.exc \in {"TypeError", "ValueError"} THEN Fallback ELSE f

ScoreValidate ==
    /\ UNCHANGED << tableVars, searchVars, updateVars, selectVars >>
    /\ trace' = Append(trace, IF ScoreOf(response).exc = "none" THEN "validate" ELSE "validate!")
    /\ spc = "validate"
    /\ LET f == ScoreOf(response)
       IN  IF f.exc = "none"
           THEN retval' = f /\ spc' = "finally"
           ELSE retval' = retval /\ spc' = "except"
    /\ UNCHANGED << s3key, tmpExists, tmpTar, files, prompt, response, result,
                    dlCalls, llmCalls, unlinkCalls >>

\* Lines 125-130: except Exception.
ScoreExcept ==
    /\ UNCHANGED << tableVars, searchVars, updateVars, selectVars >>
    /\ trace' = Append(trace, "except")
    /\ spc = "except"
    /\ retval' = Fallback
    /\ spc' = "finally"
    /\ UNCHANGED << s3key, tmpExists, tmpTar, files, prompt, response, result,
                    dlCalls, llmCalls, unlinkCalls >>

\* ScoreFinally without the unlink of line 136.
ScoreFinallyNoUnlink ==
    /\ UNCHANGED << tableVars, searchVars, updateVars, selectVars >>
    /\ spc = "finally"
    /\ result' = ScoreDict(retval)
    /\ spc' = "done"
    /\ UNCHANGED << s3key, tmpExists, tmpTar, files, prompt, response, retval,
                    dlCalls, llmCalls, unlinkCalls, trace >>

\* Lines 132-136: the file is unlinked if it exists, then score returns.
ScoreFinally ==
    /\ UNCHANGED << tableVars, searchVars, updateVars, selectVars >>
    /\ trace' = (IF tmpExists THEN Append(trace, "unlink") ELSE trace)
    /\ spc = "finally"
    /\ IF tmpExists
       THEN tmpExists' = FALSE /\ unlinkCalls' = unlinkCalls + 1
       ELSE UNCHANGED << tmpExists, unlinkCalls >>
    /\ result' = ScoreDict(retval)
    /\ spc' = "done"
    /\ UNCHANGED << s3key, tmpTar, files, prompt, response, retval, dlCalls, llmCalls >>

\* Lines 137-138: os.unlink raising; the exception is logged and dropped,
\* and the file stays.
ScoreFinallyUnlinkFault ==
    /\ UNCHANGED << tableVars, searchVars, updateVars, selectVars >>
    /\ trace' = Append(trace, "unlink!")
    /\ spc = "finally"
    /\ tmpExists
    /\ unlinkCalls' = unlinkCalls + 1
    /\ result' = ScoreDict(retval)
    /\ spc' = "done"
    /\ UNCHANGED << s3key, tmpExists, tmpTar, files, prompt, response, retval,
                    dlCalls, llmCalls >>

ScoreNext ==
    \/ \E key \in S3Keys : ScoreCall(key)
    \/ \E key \in S3Keys : ScoreTmpFault(key)
    \/ ScoreDownload
    \/ ScoreDownloadFault
    \/ ScoreExtract
    \/ ScorePrompt
    \/ \E reply \in Replies : ScoreAsk(reply)
    \/ ScoreValidate
    \/ ScoreExcept
    \/ ScoreFinally
    \/ ScoreFinallyUnlinkFault


\* ------------------------------------------------------------------------
\* Properties of CodeQualityMetric.score
\* ------------------------------------------------------------------------

Happened(e) == \E i \in 1..Len(trace) : trace[i] = e

ScoreReturned == spc = "done" /\ result.status = "returned"

\* A float in [0.0, 1.0] (hundredths).
InUnitRange(f) == f.fk = "finite" /\ 0 <= f.num /\ f.num <= 100

\* C1: whatever the download, the extraction and the inference do, the
\* value score returns under code_quality lies in [0.0, 1.0].
C1_ScoreInUnitRange == ScoreReturned => InUnitRange(result.val)

\* C2: score never surfaces a fault to its caller: whichever stage fails,
\* temporary-file acquisition included, the call returns a result mapping.
C2_ScoreNeverRaises == spc = "done" => result.status = "returned"

\* The cases in which the fallback is due.
DownloadFailed == Happened("download!")
NoFilesSelected == Happened("extract") /\ files = <<>>
InferenceAnswered == Happened("ask")
NotAMapping == InferenceAnswered /\ ~IsDict(response)
KeyMissing == InferenceAnswered /\ IsDict(response) /\ SCORE_FIELD \notin Keys(response.map)
NotCoercible ==
    /\ InferenceAnswered
    /\ IsDict(response)
    /\ SCORE_FIELD \in Keys(response.map)
    /\ Float(Get(response.map, SCORE_FIELD)).exc # "none"

FallbackDue ==
    DownloadFailed \/ NoFilesSelected \/ NotAMapping \/ KeyMissing \/ NotCoercible

\* C3: score returns exactly {code_quality: 0.0} when the download fails,
\* when extraction selects no files, when the inference result is null or
\* not a mapping, when it lacks the key code_quality, and when the value
\* under the key is not coercible to a float.
C3_FallbackCases ==
    (spc = "done" /\ FallbackDue)
        => result = [status |-> "returned", key |-> "code_quality",
                     val |-> [exc |-> "none", fk |-> "finite", num |-> 0]]

\* Reached: the inference answered {code_quality: "high"} and score is done.
C3_Witness ==
    /\ spc = "done"
    /\ NotCoercible
    /\ Get(response.map, SCORE_FIELD).kind = "str"

\* C4 as stated: after score returns the temporary archive file no longer
\* exists, on every exit path.
C4_TmpGoneOnEveryPath == ScoreReturned => ~tmpExists

\* C4 as amended: on every exit path score has called os.unlink on the
\* temporary file exactly once when it returns, and the file no longer
\* exists unless that call itself raised.
C4_TmpUnlinkAttempted ==
    ScoreReturned => /\ unlinkCalls = 1
                     /\ (tmpExists => Happened("unlink!"))

\* Reached: the download raised, score returned, the file is gone.
C4_Witness == ScoreReturned /\ DownloadFailed /\ ~tmpExists /\ unlinkCalls = 1

\* The place of a stage in the pipeline; 0 for what is no stage.
StageOf(e) ==
    CASE e \in {"download", "download!"} -> 1
      [] e = "extract" -> 2
      [] e = "prompt" -> 3
      [] e \in {"ask", "ask!"} -> 4
      [] OTHER -> 0

\* C18: within one score call the stages run in the order download,
\* extraction, prompt build, inference, each at most once and only after
\* the stage before it; inference is never invoked when the download
\* failed or when no files were selected, and at most once otherwise.
C18_StagesInOrder ==
    /\ \A i, j \in 1..Len(trace) :
          (i < j /\ StageOf(trace[i]) > 0 /\ StageOf(trace[j]) > 0)
              => StageOf(trace[i]) < StageOf(trace[j])
    /\ \A j \in 1..Len(trace) :
          StageOf(trace[j]) > 1
              => \E i \in 1..(j - 1) : StageOf(trace[i]) = StageOf(trace[j]) - 1
    /\ DownloadFailed => ~Happened("extract")
    /\ (DownloadFailed \/ NoFilesSelected) => (llmCalls = 0 /\ ~Happened("prompt"))
    /\ llmCalls <= 1
    /\ dlCalls <= 1

\* Reached: the bundle held no file to select; score returned without any
\* inference call.
C18_Witness ==
    /\ ScoreReturned /\ NoFilesSelected
    /\ dlCalls = 1 /\ llmCalls = 0

RECURSIVE ParensBalanced(_, _)
ParensBalanced(p, depth) ==
    IF p = <<>> THEN depth = 0
    ELSE IF p[1] = "(" THEN ParensBalanced(Tail(p), depth + 1)
    ELSE IF p[1] = ")" THEN depth > 0 /\ ParensBalanced(Tail(p), depth - 1)
    ELSE ParensBalanced(Tail(p), depth)

\* re_compile without the re.error of an unbalanced parenthesis.
re_compile_unchecked(pattern) ==
    [ok |-> TRUE, atoms |-> SelectSeq(pattern, LAMBDA c : c \notin {"(", ")"})]

\* re.compile(pattern, flags=re.IGNORECASE) (lines 63-66): ok is FALSE for
\* re.error; atoms are what the compiled pattern matches one after another.
re_compile(pattern) ==
    [ok |-> ParensBalanced(pattern, 0),
     atoms |-> SelectSeq(pattern, LAMBDA c : c \notin {"(", ")"})]

\* One atom against one character, under IGNORECASE; "." is any character
\* but the line break.
AtomMatches(a, c) == IF a = "." THEN c # "\n" ELSE LowerChar(a) = LowerChar(c)

\* regex.search(text)
regex_search(regex, text) ==
    \E pos \in 0..(Len(text) - Len(regex.atoms)) :
        \A i \in 1..Len(regex.atoms) : AtomMatches(regex.atoms[i], text[pos + i])

\* str(k) of a whole number.
RECURSIVE DigitsOf(_)
DigitsOf(k) ==
    IF k < 10 THEN << Digits[k + 1] >>
    ELSE DigitsOf(k \div 10) \o << Digits[(k % 10) + 1] >>

\* SearchableText without the isinstance(value, str) test of line 98:
\* every metadata value goes in, as str(value).
SearchableTextAnyValue(item) ==
    LET metadata == Get(item, "metadata")
        vals == IF IsDict(metadata) THEN metadata.map ELSE <<>>
    IN  JoinNewline(<< Get(item, "name").str >>
                    \o [i \in 1..Len(vals) |->
                           IF IsStr(vals[i].val) THEN vals[i].val.str
                           ELSE DigitsOf(vals[i].val.num \div 100)])

\* Lines 93-101: the name, then every metadata value that is a string.
SearchableText(item) ==
    LET metadata == Get(item, "metadata")
        strs == IF IsDict(metadata)
                THEN SelectSeq(metadata.map, LAMBDA e : IsStr(e.val))
                ELSE <<>>
    IN  JoinNewline(<< Get(item, "name").str >> \o [i \in 1..Len(strs) |-> strs[i].val.str])

\* Lines 77-104: whether the loop body reaches results.append for an item.
Selected(item, regex, filter) ==
    /\ IsStr(Get(item, "name"))
    /\ IsStr(Get(item, "artifact_id"))
    /\ IsStr(Get(item, "artifact_type"))
    /\ (filter # <<>> => Lower(Get(item, "artifact_type").str) = filter)
    /\ regex_search(regex, SearchableText(item))

\* Lines 106-112
ResultItem(item) ==
    [name |-> Get(item, "name").str,
     id |-> Get(item, "artifact_id").str,
     type |-> Lower(Get(item, "artifact_type").str)]

\* Lines 75-115: the loop over one page; returned says that line 115 ran.
RECURSIVE ScanItems(_, _, _, _, _)
ScanItems(items, acc, regex, filter, limit) ==
    IF items = <<>> THEN [results |-> acc, returned |-> FALSE]
    ELSE IF Selected(items[1], regex, filter)
    THEN LET acc2 == Append(acc, ResultItem(items[1]))
         IN  IF Len(acc2) >= limit
             THEN [results |-> acc2, returned |-> TRUE]
             ELSE ScanItems(Tail(items), acc2, regex, filter, limit)
    ELSE ScanItems(Tail(items), acc, regex, filter, limit)

DEFAULT_LIMIT == 50

\* Lines 157-161: int(limit_raw), 50 when the body has no limit or one
\* that int() rejects.
LimitOf(limit_raw) == IF limit_raw.kind = "int" THEN limit_raw.n ELSE DEFAULT_LIMIT

\* Lines 151-154
FilterOf(raw_type) == IF IsStr(raw_type) THEN Lower(raw_type.str) ELSE <<>>

NoResponse == [status |-> 0, error |-> "", body |-> <<>>]
Response(status, error, body) == [status |-> status, error |-> error, body |-> body]

SearchInit ==
    /\ qpc = "idle"
    /\ qpattern = <<>>
    /\ qfilter = <<>>
    /\ qlimit = 0
    /\ qcursor = 0
    /\ results = <<>>
    /\ scanCount = 0
    /\ qresp = NoResponse

\* Lines 131-139: the token check fails.
SearchUnauthorized ==
    /\ qpc = "idle"
    /\ qpc' = "done"
    /\ qresp' = Response(403, "Authentication failed", <<>>)
    /\ UNCHANGED << qpattern, qfilter, qlimit, qcursor, results, scanCount >>
    /\ UNCHANGED << scoreVars, tableVars, updateVars, selectVars >>

\* Lines 141-175 and 63-69: the body is parsed and the pattern compiled.
SearchCall(pattern_value, raw_type, limit_raw) ==
    /\ qpc = "idle"
    /\ IF ~IsStr(pattern_value) \/ pattern_value.str = <<>>
       THEN /\ qpc' = "done"
            /\ qresp' = Response(400, "Missing regex pattern in request body", <<>>)
            /\ UNCHANGED << qpattern, qfilter, qlimit, qcursor >>
       ELSE /\ qpattern' = pattern_value.str
            /\ qfilter' = FilterOf(raw_type)
            /\ qlimit' = LimitOf(limit_raw)
            /\ IF re_compile(pattern_value.str).ok
               THEN /\ qpc' = "scan"
                    /\ qcursor' = 1
                    /\ qresp' = qresp
               ELSE /\ qpc' = "done"
                    /\ qcursor' = qcursor
                    /\ qresp' = Response(400, "Invalid regular expression", <<>>)
    /\ UNCHANGED << results, scanCount >>
    /\ UNCHANGED << scoreVars, tableVars, updateVars, selectVars >>

\* The items of a page.
PageItems(page) == [i \in 1..Len(page) |-> table[page[i]]]

\* Lines 71-122: one turn of the loop: table.scan, the loop over its
\* items, and the return or the step to the next page.
SearchScan ==
    /\ qpc = "scan"
    /\ scanCount' = scanCount + 1
    /\ LET r == ScanItems(PageItems(layout[qcursor]), results, re_compile(qpattern),
                          qfilter, qlimit)
       IN  /\ results' = r.results
           /\ IF r.returned \/ qcursor = Len(layout)
              THEN /\ qpc' = "done"
                   /\ qresp' = Response(200, "", r.results)
                   /\ qcursor' = qcursor
              ELSE /\ qpc' = "scan"
                   /\ qresp' = qresp
                   /\ qcursor' = qcursor + 1
    /\ UNCHANGED << qpattern, qfilter, qlimit >>
    /\ UNCHANGED << scoreVars, tableVars, updateVars, selectVars >>

\* A stored item; an attribute given as None is not stored.
Item(id, name, type, metadata) ==
    SelectSeq(<< Entry("artifact_id", StrV(id)), Entry("name", name),
                 Entry("artifact_type", type), Entry("metadata", metadata) >>,
              LAMBDA e : e.val # NullV)

\* The items a search may find in the table, in the order a scan yields
\* them: a mixed-case type and a numeric metadata value, no metadata, no
\* type, a name that is no string, metadata that is no dict.
SearchItems ==
    << Item(<< "a" >>, StrV(<< "B", "e", "r", "t" >>), StrV(<< "M", "o", "d", "e", "l" >>),
            MapV(<< Entry("task", StrV(<< "N", "L", "P" >>)),
                    Entry("size", NumV(700)),
                    Entry("lang", StrV(<< "e", "n" >>)) >>)),
       Item(<< "b" >>, StrV(<< "d", "a", "t", "a", "7" >>),
            StrV(<< "d", "a", "t", "a", "s", "e", "t" >>), NullV),
       Item(<< "c" >>, StrV(<< "n", "l", "p" >>), NullV, MapV(EmptyMap)),
       Item(<< "d" >>, NumV(700), StrV(<< "c", "o", "d", "e" >>),
            MapV(<< Entry("task", StrV(<< "n", "l", "p" >>)) >>)),
       Item(<< "e" >>, StrV(<< "E", "v", "e" >>), StrV(<< "c", "o", "d", "e" >>),
            StrV(<< "n", "l", "p" >>)) >>

IdOf(item) == Get(item, "artifact_id").str

\* The table holding the items at the given places of SearchItems.
TableOf(places) ==
    [id \in {IdOf(SearchItems[i]) : i \in places} |->
        SearchItems[CHOOSE i \in places : IdOf(SearchItems[i]) = id]]

SearchTables == {TableOf(places) : places \in SUBSET (1..Len(SearchItems))}

\* The ids of a table in scan order: a fixed order, here ascending.
RECURSIVE ScanOrderOf(_)
ScanOrderOf(ids) ==
    IF ids = {} THEN <<>>
    ELSE LET first == CHOOSE x \in ids : \A y \in ids \ {x} : StrLess(x, y)
         IN  << first >> \o ScanOrderOf(ids \ {first})

ScanOrder(tbl) == ScanOrderOf(DOMAIN tbl)

MaxPages == 3

RECURSIVE SumTo(_, _)
SumTo(sizes, k) == IF k = 0 THEN 0 ELSE sizes[k] + SumTo(sizes, k - 1)

\* ids cut into pages of the given sizes.
RECURSIVE Paged(_, _)
Paged(ids, sizes) ==
    IF sizes = <<>> THEN <<>>
    ELSE << SubSeq(ids, 1, sizes[1]) >>
            \o Paged(SubSeq(ids, sizes[1] + 1, Len(ids)), Tail(sizes))

\* Every way a scan may page the table: one to MaxPages pages, any of
\* which may be empty, each but the last followed by a LastEvaluatedKey.
Layouts(tbl) ==
    LET ids == ScanOrder(tbl)
    IN  UNION {{Paged(ids, sizes) :
                    sizes \in {s \in [1..k -> 0..Len(ids)] : SumTo(s, k) = Len(ids)}} :
               k \in 1..MaxPages}

\* What the request body may hold.
Patterns ==
    { << "n", "l", "p" >>, << "(", "B", ".", "r", ")" >>, << "7" >>, << "." >>,
      << "t", "\n", "N" >>, << "(", "b", "a", "d", "(" >>, << ")" >> }

PatternValues == {StrV(p) : p \in Patterns} \cup {StrV(<<>>), NullV}

RawTypes == {NullV, StrV(<<>>), StrV(<< "M", "o", "d", "e", "l" >>), StrV(<< "c", "o", "d", "e" >>)}

MaxLimit == 3

RawLimits == {[kind |-> "absent", n |-> 0]} \cup {[kind |-> "int", n |-> n] : n \in (0 - 1)..MaxLimit}

SearchNext ==
    \/ SearchUnauthorized
    \/ \E pattern_value \in PatternValues, raw_type \in RawTypes, limit_raw \in RawLimits :
          SearchCall(pattern_value, raw_type, limit_raw)
    \/ SearchScan

\* ------------------------------------------------------------------------
\* lambdas/put_artifact_update.py
\* ------------------------------------------------------------------------

\* What a finished invocation hands back: raised names the exception that
\* left lambda_handler ("" for none), error_code is the code the handler
\* gave _error_response, artifact the "artifact" object of a 200 body.
UpdResponse(raised, status, error_code, artifact) ==
    [raised |-> raised, status |-> status, error_code |-> error_code,
     artifact |-> artifact]

NoUpdResponse == UpdResponse("", 0, "", <<>>)

\* _error_response (lines 69-79): body is the set {"error", message}, so
\* body["error_code"] = error_code raises TypeError for a non-empty code,
\* and json.dumps(body) raises TypeError for a set otherwise.
error_response(status_code, error_code) ==
    IF error_code # ""
    THEN UpdResponse("TypeError", 0, error_code, <<>>)
    ELSE UpdResponse("TypeError", 0, "", <<>>)

\* updates.pop(key, None)
Without(d, key) == SelectSeq(d, LAMBDA e : e.key # key)

\* existing_metadata.update(value)
RECURSIVE DictUpdate(_, _)
DictUpdate(d, other) ==
    IF other = <<>> THEN d
    ELSE DictUpdate(Put(d, other[1].key, other[1].val), Tail(other))

\* The loop of lines 128-137 over the remaining updates.
RECURSIVE ApplyEntries(_, _)
ApplyEntries(existing_item, updates) ==
    IF updates = <<>> THEN existing_item
    ELSE LET key == updates[1].key
             value == updates[1].val
             existing_metadata == Get(existing_item, "metadata")
             next ==
                IF key = "metadata" /\ IsDict(value)
                THEN IF IsDict(existing_metadata)
                     THEN Put(existing_item, "metadata",
                              MapV(DictUpdate(existing_metadata.map, value.map)))
                     ELSE Put(existing_item, "metadata", value)
                ELSE Put(existing_item, key, value)
         IN  ApplyEntries(next, Tail(updates))

\* _apply_updates without the two pops of lines 125-126.
apply_updates_unprotected(existing_item, updates) == ApplyEntries(existing_item, updates)

\* _apply_updates without the merge of lines 129-135: metadata is
\* overwritten like any other key.
RECURSIVE PutEntries(_, _)
PutEntries(existing_item, updates) ==
    IF updates = <<>> THEN existing_item
    ELSE PutEntries(Put(existing_item, updates[1].key, updates[1].val), Tail(updates))

apply_updates_replacing(existing_item, updates) ==
    PutEntries(existing_item, Without(Without(updates, "artifact_id"), "artifact_type"))

\* _apply_updates building the record anew from the identity, the type and
\* the updates, so that a field the updates do not name is dropped.
apply_updates_rebuilding(existing_item, updates) ==
    ApplyEntries(SelectSeq(existing_item,
                           LAMBDA e : e.key \in {"artifact_id", "artifact_type"}),
                 Without(Without(updates, "artifact_id"), "artifact_type"))

\* _apply_updates (lines 111-139)
apply_updates(existing_item, updates) ==
    ApplyEntries(existing_item, Without(Without(updates, "artifact_id"), "artifact_type"))

ValidTypes == { << "m", "o", "d", "e", "l" >>, << "d", "a", "t", "a", "s", "e", "t" >>,
                << "c", "o", "d", "e" >> }

\* Lines 148-174: the checks made before the table is touched; "" when the
\* request passes them.
RequestError(req) ==
    IF ~req.auth THEN "AUTH_FAILED"
    ELSE IF req.id = <<>> THEN "MISSING_ID"
    ELSE IF req.type = <<>> THEN "MISSING_TYPE"
    ELSE IF Lower(req.type) \notin ValidTypes THEN "INVALID_TYPE"
    ELSE IF req.body = <<>> THEN "EMPTY_UPDATE"
    ELSE ""

StatusOf(error_code) ==
    CASE error_code = "AUTH_FAILED" -> 403
      [] error_code = "NOT_FOUND" -> 404
      [] error_code = "TYPE_MISMATCH" -> 409
      [] error_code \in {"DDB_GET_FAILED", "DDB_PUT_FAILED"} -> 500
      [] OTHER -> 400

\* table.put_item(Item=item): the item replaces whatever is stored under
\* its own artifact_id.
PutItem(tbl, item) ==
    [id \in DOMAIN tbl \cup {Get(item, "artifact_id").str} |->
        IF id = Get(item, "artifact_id").str THEN item ELSE tbl[id]]

Procs == {"w1", "w2"}

MaxCalls == 2

NoRequest == [auth |-> FALSE, id |-> <<>>, type |-> <<>>, body |-> <<>>]

UpdateInit ==
    /\ upc = [p \in Procs |-> "idle"]
    /\ ureq = [p \in Procs |-> NoRequest]
    /\ uread = [p \in Procs |-> <<>>]
    /\ uitem = [p \in Procs |-> <<>>]
    /\ uresp = [p \in Procs |-> NoUpdResponse]
    /\ ucalls = 0

\* Lines 142-174: an invocation starts and checks its request.
UpdateCall(p, req) ==
    /\ upc[p] \in {"idle", "done"}
    /\ ucalls < MaxCalls
    /\ ucalls' = ucalls + 1
    /\ ureq' = [ureq EXCEPT ![p] = req]
    /\ uread' = [uread EXCEPT ![p] = <<>>]
    /\ uitem' = [uitem EXCEPT ![p] = <<>>]
    /\ IF RequestError(req) # ""
       THEN /\ upc' = [upc EXCEPT ![p] = "done"]
            /\ uresp' = [uresp EXCEPT ![p] =
                            error_response(StatusOf(RequestError(req)), RequestError(req))]
       ELSE /\ upc' = [upc EXCEPT ![p] = "get"]
            /\ uresp' = [uresp EXCEPT ![p] = NoUpdResponse]
    /\ UNCHANGED << scoreVars, tableVars, searchVars, selectVars >>

\* UpdateGet with the merge made and stored before the type check of
\* lines 197-204.
UpdateGetWritingFirst(p) ==
    /\ upc[p] = "get"
    /\ LET req == ureq[p]
           found == req.id \in DOMAIN table
           item == IF found THEN table[req.id] ELSE <<>>
           stored_type == IF IsStr(Get(item, "artifact_type"))
                          THEN Lower(Get(item, "artifact_type").str)
                          ELSE <<>>
           error_code ==
                IF item = <<>> THEN "NOT_FOUND"
                ELSE IF stored_type # <<>> /\ stored_type # Lower(req.type)
                THEN "TYPE_MISMATCH"
                ELSE ""
       IN  /\ table' = IF found THEN PutItem(table, apply_updates(item, req.body)) ELSE table
           /\ IF error_code # ""
              THEN /\ upc' = [upc EXCEPT ![p] = "done"]
                   /\ uresp' = [uresp EXCEPT ![p] =
                                   error_response(StatusOf(error_code), error_code)]
                   /\ UNCHANGED << uread, uitem >>
              ELSE /\ upc' = [upc EXCEPT ![p] = "put"]
                   /\ uread' = [uread EXCEPT ![p] = item]
                   /\ uitem' = [uitem EXCEPT ![p] = apply_updates(item, req.body)]
                   /\ uresp' = uresp
    /\ UNCHANGED << layout, ureq, ucalls >>
    /\ UNCHANGED << scoreVars, searchVars, selectVars >>

\* Lines 180-206: get_item answers; the item is checked and merged.
UpdateGet(p) ==
    /\ upc[p] = "get"
    /\ LET req == ureq[p]
           found == req.id \in DOMAIN table
           item == IF found THEN table[req.id] ELSE <<>>
           stored_type == IF IsStr(Get(item, "artifact_type"))
                          THEN Lower(Get(item, "artifact_type").str)
                          ELSE <<>>
           error_code ==
                IF item = <<>> THEN "NOT_FOUND"
                ELSE IF stored_type # <<>> /\ stored_type # Lower(req.type)
                THEN "TYPE_MISMATCH"
                ELSE ""
       IN  IF error_code # ""
           THEN /\ upc' = [upc EXCEPT ![p] = "done"]
                /\ uresp' = [uresp EXCEPT ![p] = error_response(StatusOf(error_code), error_code)]
                /\ UNCHANGED << uread, uitem >>
           ELSE /\ upc' = [upc EXCEPT ![p] = "put"]
                /\ uread' = [uread EXCEPT ![p] = item]
                /\ uitem' = [uitem EXCEPT ![p] = apply_updates(item, req.body)]
                /\ uresp' = uresp
    /\ UNCHANGED << ureq, ucalls >>
    /\ UNCHANGED << scoreVars, tableVars, searchVars, selectVars >>

\* Lines 183-191: get_item raises ClientError.
UpdateGetFault(p) ==
    /\ upc[p] = "get"
    /\ upc' = [upc EXCEPT ![p] = "done"]
    /\ uresp' = [uresp EXCEPT ![p] = error_response(500, "DDB_GET_FAILED")]
    /\ UNCHANGED << ureq, uread, uitem, ucalls >>
    /\ UNCHANGED << scoreVars, tableVars, searchVars, selectVars >>

\* UpdatePut with the merge made on the record as stored at the time of
\* the write, not on the record read before.
UpdatePutAtomic(p) ==
    /\ upc[p] = "put"
    /\ table' = PutItem(table, apply_updates(table[ureq[p].id], ureq[p].body))
    /\ upc' = [upc EXCEPT ![p] = "done"]
    /\ uresp' = [uresp EXCEPT ![p] =
                    UpdResponse("", 200, "",
                                << Entry("id", StrV(ureq[p].id)),
                                   Entry("name", Get(uitem[p], "name")),
                                   Entry("type", Get(uitem[p], "artifact_type")),
                                   Entry("metadata", Get(uitem[p], "metadata")) >>)]
    /\ UNCHANGED << layout, ureq, uread, uitem, ucalls >>
    /\ UNCHANGED << scoreVars, searchVars, selectVars >>

\* Lines 208-231: put_item stores the merged item whole; the 200 response.
UpdatePut(p) ==
    /\ upc[p] = "put"
    /\ table' = PutItem(table, uitem[p])
    /\ upc' = [upc EXCEPT ![p] = "done"]
    /\ uresp' = [uresp EXCEPT ![p] =
                    UpdResponse("", 200, "",
                                << Entry("id", StrV(ureq[p].id)),
                                   Entry("name", Get(uitem[p], "name")),
                                   Entry("type", Get(uitem[p], "artifact_type")),
                                   Entry("metadata", Get(uitem[p], "metadata")) >>)]
    /\ UNCHANGED << layout, ureq, uread, uitem, ucalls >>
    /\ UNCHANGED << scoreVars, searchVars, selectVars >>

\* Lines 210-219: put_item raises ClientError.
UpdatePutFault(p) ==
    /\ upc[p] = "put"
    /\ upc' = [upc EXCEPT ![p] = "done"]
    /\ uresp' = [uresp EXCEPT ![p] = error_response(500, "DDB_PUT_FAILED")]
    /\ UNCHANGED << ureq, uread, uitem, ucalls >>
    /\ UNCHANGED << scoreVars, tableVars, searchVars, selectVars >>

\* The items stored when the updates start.
StoredX ==
    << Entry("artifact_id", StrV(<< "x" >>)),
       Entry("artifact_type", StrV(<< "M", "o", "d", "e", "l" >>)),
       Entry("name", StrV(<< "n" >>)),
       Entry("metadata", MapV(<< Entry("a", NumV(0)), Entry("b", NumV(200)) >>)) >>

StoredZ ==
    << Entry("artifact_id", StrV(<< "z" >>)),
       Entry("metadata", StrV(<< "f", "l", "a", "t" >>)) >>

StoredItems ==
    [id \in {<< "x" >>, << "z" >>} |-> IF id = << "x" >> THEN StoredX ELSE StoredZ]

\* The request bodies: the fields to update.
Bodies ==
    { << Entry("metadata", MapV(<< Entry("k2", StrV(<< "v", "2" >>)) >>)),
         Entry("artifact_id", StrV(<< "i", "g", "n", "o", "r", "e", "d" >>)) >>,
      << Entry("metadata", MapV(<< Entry("a", NumV(100)) >>)) >>,
      << Entry("metadata", NumV(700)) >>,
      << Entry("name", StrV(<< "n", "e", "w" >>)),
         Entry("artifact_type", StrV(<< "c", "o", "d", "e" >>)) >>,
      << Entry("artifact_id", StrV(<< "q" >>)) >>,
      << Entry("id", StrV(<< "q" >>)), Entry("type", StrV(<< "c", "o", "d", "e" >>)) >>,
      << >> }

Requests ==
    [auth : {TRUE},
     id : {<< "x" >>, << "z" >>, << "q" >>},
     type : {<< "m", "o", "d", "e", "l" >>, << "D", "a", "t", "a", "s", "e", "t" >>},
     body : Bodies]
        \cup {[auth |-> FALSE, id |-> << "x" >>, type |-> << "m", "o", "d", "e", "l" >>,
               body |-> << Entry("name", StrV(<< "n", "e", "w" >>)) >>],
              [auth |-> TRUE, id |-> << >>, type |-> << "m", "o", "d", "e", "l" >>,
               body |-> << Entry("name", StrV(<< "n", "e", "w" >>)) >>],
              [auth |-> TRUE, id |-> << "x" >>, type |-> << >>,
               body |-> << Entry("name", StrV(<< "n", "e", "w" >>)) >>],
              [auth |-> TRUE, id |-> << "x" >>, type |-> << "b", "o", "g", "u", "s" >>,
               body |-> << Entry("name", StrV(<< "n", "e", "w" >>)) >>]}

UpdateNext ==
    \/ \E p \in Procs, req \in Requests : UpdateCall(p, req)
    \/ \E p \in Procs : UpdateGet(p)
    \/ \E p \in Procs : UpdateGetFault(p)
    \/ \E p \in Procs : UpdatePut(p)
    \/ \E p \in Procs : UpdatePutFault(p)

\* ------------------------------------------------------------------------
\* Calls of select_relevant_files
\* ------------------------------------------------------------------------

\* No call is made.
SelectIdle ==
    /\ selFiles = <<>> /\ selAgain = <<>>
    /\ selExt = <<>> /\ selMax = 0 /\ selPri = FALSE
    /\ selOut = <<>> /\ selOutAgain = <<>>
    /\ selDone = {"first", "again"}

\* The paths an archive may hold: two README-like ones, one of them
\* without extension; two that differ in letter case only; one more.
SelectPaths ==
    { << "R", "E", "A", "D", "M", "E", ".", "m", "d" >>,
      << "d", "/", "R", "e", "a", "d", "M", "e" >>,
      << "a", ".", "p", "y" >>,
      << "A", ".", "p", "y" >>,
      << "b", ".", "p", "y" >> }

MaxInputFiles == 3

\* The content of a file: its own path, so that no two files have the same.
ContentOf(path) == path

\* Every dict of up to MaxInputFiles files, in every insertion order.
SelectDicts ==
    UNION {{[i \in 1..n |-> [name |-> order[i], content |-> ContentOf(order[i])]] :
               order \in {o \in [1..n -> SelectPaths] :
                             \A i, j \in 1..n : i # j => o[i] # o[j]}} :
           n \in 0..MaxInputFiles}

SameFiles(d1, d2) == {d1[i] : i \in 1..Len(d1)} = {d2[i] : i \in 1..Len(d2)}

SelectExts == { << << ".", "p", "y" >> >>, << << ".", "m", "d" >>, << ".", "t", "x", "t" >> >> }

SelectInit ==
    /\ selFiles \in SelectDicts
    /\ selAgain \in {d \in SelectDicts : SameFiles(d, selFiles)}
    /\ selExt \in SelectExts
    /\ selMax \in (0 - 1)..MaxInputFiles
    /\ selPri \in BOOLEAN
    /\ selOut = <<>> /\ selOutAgain = <<>>
    /\ selDone = {}

\* select_relevant_files(all_files, include_ext, max_files, prioritize_readme)
SelectCall ==
    /\ "first" \notin selDone
    /\ selOut' = select_relevant_files(selFiles, selExt, selMax, selPri)
    /\ selDone' = selDone \cup {"first"}
    /\ UNCHANGED << selFiles, selAgain, selExt, selMax, selPri, selOutAgain >>
    /\ UNCHANGED << scoreVars, tableVars, searchVars, updateVars >>

\* The same call on the files as the other enumeration presents them.
SelectCallAgain ==
    /\ "again" \notin selDone
    /\ selOutAgain' = select_relevant_files(selAgain, selExt, selMax, selPri)
    /\ selDone' = selDone \cup {"again"}
    /\ UNCHANGED << selFiles, selAgain, selExt, selMax, selPri, selOut >>
    /\ UNCHANGED << scoreVars, tableVars, searchVars, updateVars >>

SelectNext == SelectCall \/ SelectCallAgain

\* ------------------------------------------------------------------------
\* Specifications
\* ------------------------------------------------------------------------

NoTable == [id \in {} |-> <<>>]

\* One score call.
InitScore ==
    /\ ScoreInit /\ SearchInit /\ UpdateInit /\ SelectIdle
    /\ table = NoTable
    /\ layout = << <<>> >>

SpecScore == InitScore /\ [][ScoreNext]_vars

\* One search request over a table that does not change meanwhile.
InitSearch ==
    /\ ScoreInit /\ SearchInit /\ UpdateInit /\ SelectIdle
    /\ table \in SearchTables
    /\ layout \in Layouts(table)

SpecSearch == InitSearch /\ [][SearchNext]_vars

\* Update invocations, at most MaxCalls of them, two at a time.
InitUpdate ==
    /\ ScoreInit /\ SearchInit /\ UpdateInit /\ SelectIdle
    /\ table = StoredItems
    /\ layout = << ScanOrder(StoredItems) >>

SpecUpdate == InitUpdate /\ [][UpdateNext]_vars

\* The two calls of select_relevant_files on one file set.
InitSelect ==
    /\ ScoreInit /\ SearchInit /\ UpdateInit /\ SelectInit
    /\ table = NoTable
    /\ layout = << <<>> >>

SpecSelect == InitSelect /\ [][SelectNext]_vars

\* The three together, over one table.
Init ==
    /\ ScoreInit /\ SearchInit /\ UpdateInit /\ SelectIdle
    /\ table \in SearchTables \cup {StoredItems}
    /\ layout \in Layouts(table)

Next == ScoreNext \/ SearchNext \/ UpdateNext

Spec == Init /\ [][Next]_vars

\* ------------------------------------------------------------------------
\* Properties of the search
\* ------------------------------------------------------------------------

SearchReturned == qpc = "done" /\ qresp.status = 200

\* C5: whatever the pattern, the type filter, the table, its paging and
\* the limit, the list search_artifacts_by_regex returns has at most limit
\* items.
C5_AtMostLimit == SearchReturned => Len(qresp.body) <= qlimit

\* C6: pages are fetched one after another, and once the accumulated
\* matches have reached limit no further page is fetched, even if the
\* cursor is not exhausted.
C6_NoFetchAfterLimit ==
    [][(scanCount >= 1 /\ scanCount' = scanCount + 1) => Len(results) < qlimit]_vars

\* The blob of a stored record, as the claim words it: the name, then each
\* string-valued metadata entry, joined by line breaks.
RECURSIVE StringEntries(_)
StringEntries(entries) ==
    IF entries = <<>> THEN <<>>
    ELSE IF entries[1].val.kind = "str"
    THEN << "\n" >> \o entries[1].val.str \o StringEntries(Tail(entries))
    ELSE StringEntries(Tail(entries))

BlobOf(item) ==
    LET md == Get(item, "metadata")
    IN  Get(item, "name").str \o (IF md.kind = "map" THEN StringEntries(md.map) ELSE <<>>)

\* The pattern, its group parentheses aside, matches text[from+1..] with
\* letter case ignored.
MatchedAt(pattern, text, from) ==
    LET lits == SelectSeq(pattern, LAMBDA c : c # "(" /\ c # ")")
    IN  /\ from + Len(lits) <= Len(text)
        /\ \A i \in 1..Len(lits) :
              \/ lits[i] = "." /\ text[from + i] # "\n"
              \/ lits[i] # "." /\ Lower(<< lits[i] >>) = Lower(<< text[from + i] >>)

MatchedSomewhere(pattern, text) == \E from \in 0..Len(text) : MatchedAt(pattern, text, from)

StoredType(item) == Get(item, "artifact_type").str

\* C7 as stated: every result item is the {id, name, type} projection of a
\* stored record whose blob the pattern matches somewhere, letter case
\* ignored; with a type filter set, every item's type equals the filter.
C7_ResultsAreProjections ==
    SearchReturned =>
        \A k \in 1..Len(qresp.body) :
            LET r == qresp.body[k]
            IN  /\ r.id \in DOMAIN table
                /\ r.name = Get(table[r.id], "name").str
                /\ r.type = StoredType(table[r.id])
                /\ MatchedSomewhere(qpattern, BlobOf(table[r.id]))
                /\ (qfilter # <<>> => r.type = qfilter)

\* C7 as amended: the same, but the item's type is the stored record's type
\* in lower case.
C7_ResultsAreLoweredProjections ==
    SearchReturned =>
        \A k \in 1..Len(qresp.body) :
            LET r == qresp.body[k]
            IN  /\ r.id \in DOMAIN table
                /\ r.name = Get(table[r.id], "name").str
                /\ r.type = Lower(StoredType(table[r.id]))
                /\ MatchedSomewhere(qpattern, BlobOf(table[r.id]))
                /\ (qfilter # <<>> => r.type = qfilter)

\* Reached: a search with a type filter returned the record "a", which the
\* pattern matches in a metadata value only and whose stored type is
\* "Model".
C7_Witness ==
    /\ SearchReturned
    /\ qfilter = << "m", "o", "d", "e", "l" >>
    /\ qpattern = << "n", "l", "p" >>
    /\ Len(qresp.body) = 1
    /\ qresp.body[1].id = << "a" >>

\* Whether a pattern compiles: no prefix closes more groups than it opens,
\* and the whole pattern closes as many as it opens.
Count(c, s, n) == Cardinality({i \in 1..n : s[i] = c})
Compiles(pattern) ==
    /\ \A n \in 1..Len(pattern) : Count(")", pattern, n) <= Count("(", pattern, n)
    /\ Count(")", pattern, Len(pattern)) = Count("(", pattern, Len(pattern))

\* C8: a search whose pattern does not compile fails with InvalidPattern
\* before any data access: no scan of the table is made in that call.
C8_InvalidPatternNoScan ==
    (qpattern # <<>> /\ ~Compiles(qpattern))
        => /\ scanCount = 0
           /\ qpc = "done"
           /\ qresp = [status |-> 400, error |-> "Invalid regular expression", body |-> <<>>]

\* Reached: the pattern "(bad(" was rejected over a table that holds items.
C8_Witness ==
    /\ qpc = "done"
    /\ qpattern = << "(", "b", "a", "d", "(" >>
    /\ qresp.status = 400
    /\ scanCount = 0
    /\ DOMAIN table # {}

\* The ids of the table in the order the pages present them.
RECURSIVE Flatten(_)
Flatten(pages) == IF pages = <<>> THEN <<>> ELSE pages[1] \o Flatten(Tail(pages))

\* A record qualifies, as C17 words it: its id and name are strings, the
\* type filter is unset or equals its type with letter case ignored, and
\* the pattern matches its blob.
Qualifies(item) ==
    /\ IsStr(Get(item, "artifact_id"))
    /\ IsStr(Get(item, "name"))
    /\ \/ qfilter = <<>>
       \/ IsStr(Get(item, "artifact_type")) /\ Lower(StoredType(item)) = qfilter
    /\ MatchedSomewhere(qpattern, BlobOf(item))

QualifyingIds == SelectSeq(Flatten(layout), LAMBDA id : Qualifies(table[id]))

MinOf(a, b) == IF a < b THEN a ELSE b

\* C17: a search returns exactly the first min(limit, M) qualifying
\* records in scan order, M being the number of qualifying records of the
\* whole table; no other property of a record, a missing or non-string type
\* with no filter set included, keeps it out.
C17_FirstQualifyingInScanOrder ==
    SearchReturned =>
        [k \in 1..Len(qresp.body) |-> qresp.body[k].id]
            = SubSeq(QualifyingIds, 1, MinOf(qlimit, Len(QualifyingIds)))

\* ------------------------------------------------------------------------
\* Properties of the update
\* ------------------------------------------------------------------------

Updated(p) == upc[p] = "done" /\ uresp[p].status = 200

\* C9: whatever the patches, those naming the identity or the type field
\* included, after any sequence of updates every stored record has the
\* identity and the type it had at creation.
C9_IdAndTypeKept ==
    /\ DOMAIN table = DOMAIN StoredItems
    /\ \A id \in DOMAIN StoredItems :
          /\ Get(table[id], "artifact_id") = Get(StoredItems[id], "artifact_id")
          /\ Get(table[id], "artifact_type") = Get(StoredItems[id], "artifact_type")
          /\ Get(table[id], "artifact_id").str = id

\* Reached: an update whose body names artifact_type succeeded and changed
\* the stored record.
C9_Witness ==
    \E p \in Procs :
        /\ Updated(p)
        /\ HasKey(ureq[p].body, "artifact_type")
        /\ table[ureq[p].id] # StoredItems[ureq[p].id]

\* The metadata merge of one invocation: old is the metadata read, patch the
\* metadata of the body, new the metadata written.
ShallowMerged(old, patch, new) ==
    IF old.kind = "map" /\ patch.kind = "map"
    THEN /\ new.kind = "map"
         /\ Keys(new.map) = Keys(old.map) \cup Keys(patch.map)
         /\ \A k \in Keys(patch.map) : Get(new.map, k) = Get(patch.map, k)
         /\ \A k \in Keys(old.map) \ Keys(patch.map) : Get(new.map, k) = Get(old.map, k)
    ELSE new = patch

\* C10: the metadata merge is shallow: with the existing and the patch's
\* metadata both mappings, the merged metadata maps every patch key to the
\* patch's value, every other existing key to its existing value, and has
\* no other key; otherwise the patch's metadata replaces the whole field.
C10_ShallowMerge ==
    \A p \in Procs :
        (upc[p] \in {"put", "done"} /\ uitem[p] # <<>> /\ HasKey(ureq[p].body, "metadata"))
            => /\ ShallowMerged(Get(uread[p], "metadata"), Get(ureq[p].body, "metadata"),
                                Get(uitem[p], "metadata"))
               /\ (Updated(p) =>
                      uresp[p].artifact[4] = Entry("metadata", Get(uitem[p], "metadata")))

\* Reached: {"metadata": {"a": 1}} merged into {"a": 0, "b": 2} and stored
\* as {"a": 1, "b": 2}.
C10_Witness ==
    \E p \in Procs :
        /\ Updated(p)
        /\ Get(uread[p], "metadata") = MapV(<< Entry("a", NumV(0)), Entry("b", NumV(200)) >>)
        /\ Get(ureq[p].body, "metadata") = MapV(<< Entry("a", NumV(100)) >>)
        /\ Get(table[<< "x" >>], "metadata")
              = MapV(<< Entry("a", NumV(100)), Entry("b", NumV(200)) >>)


Failed(p) == upc[p] = "done" /\ uresp[p].status # 200

\* C14: every failure of an update is handed to the caller as a structured
\* failure value naming what went wrong (404 NOT_FOUND for an unknown id,
\* 409 TYPE_MISMATCH, 400 EMPTY_UPDATE, 500 for a failed read or write),
\* never as an exception that leaves the handler.
C14_FailuresAreStructured ==
    \A p \in Procs :
        Failed(p) => /\ uresp[p].raised = ""
                     /\ uresp[p].error_code # ""
                     /\ uresp[p].status = StatusOf(uresp[p].error_code)

\* The fields of a patch that the merger does not drop.
Effective(body) == {k \in Keys(body) : k \notin {"artifact_id", "artifact_type"}}

\* C15: an update whose patch has no effective field (the empty patch, or
\* one naming the identity and type fields only) is rejected as
\* EMPTY_UPDATE and writes nothing: it never gets to read or write the
\* table.
C15_NoEffectiveFieldRejected ==
    \A p \in Procs :
        (/\ upc[p] # "idle"
         /\ ureq[p].auth /\ ureq[p].id # <<>> /\ Lower(ureq[p].type) \in ValidTypes
         /\ Effective(ureq[p].body) = {})
            => /\ upc[p] = "done"
               /\ uresp[p].error_code = "EMPTY_UPDATE"

\* A step in which p's put_item succeeds.
Writes(p) == upc[p] = "put" /\ upc'[p] = "done" /\ uresp'[p].status = 200

\* C16: an update is an unguarded read-merge-overwrite of the whole
\* record: whatever the table holds when p writes, the record stored
\* afterwards is exactly the merge p made on the record it had read, so
\* every field p did not patch gets the value p read, and a change another
\* invocation wrote in between is lost; no other record changes.
C16_LaterWriterWins ==
    [][\A p \in Procs :
          Writes(p) =>
              /\ table' = [table EXCEPT ![ureq[p].id] = uitem[p]]
              /\ \A k \in Keys(uread[p]) \ Keys(ureq[p].body) :
                    Get(table'[ureq[p].id], k) = Get(uread[p], k)]_vars

\* Reached: two invocations read record x before either wrote; one set the
\* name, the other, writing later, patched the metadata only; the stored
\* record is the later writer's merge and has the old name again.
C16_Witness ==
    \E p, q \in Procs :
        /\ p # q /\ Updated(p) /\ Updated(q)
        /\ uread[p] = StoredX /\ uread[q] = StoredX
        /\ Get(uitem[p], "name") = StrV(<< "n", "e", "w" >>)
        /\ Keys(ureq[q].body) = {"metadata"}
        /\ table[<< "x" >>] = uitem[q]
        /\ Get(table[<< "x" >>], "name") = StrV(<< "n" >>)
        /\ Get(table[<< "x" >>], "metadata") # Get(StoredX, "metadata")

\* A step in which p's invocation, having passed the request checks, fails.
Fails(p) == upc[p] \in {"get", "put"} /\ upc'[p] = "done" /\ uresp'[p].status # 200

\* C20: an update that fails because the id is unknown, because the stored
\* type is non-empty and differs from the caller's with letter case
\* ignored, because the read failed or because the write failed leaves
\* every stored record as it was; the type check comes before any merge
\* or write.
C20_FailedUpdateChangesNothing ==
    [][\A p \in Procs :
          Fails(p) =>
              /\ uresp'[p].error_code
                    \in {"NOT_FOUND", "TYPE_MISMATCH", "DDB_GET_FAILED", "DDB_PUT_FAILED"}
              /\ table' = table
              /\ (uresp'[p].error_code # "DDB_PUT_FAILED" => uitem'[p] = <<>>)]_vars

\* Reached: a request for type dataset on record x, stored as a Model, has
\* failed on the type check, and so has one whose write failed with its
\* merge made; the table is as it was.
C20_Witness ==
    \E p, q \in Procs :
        /\ Failed(p) /\ uresp[p].error_code = "TYPE_MISMATCH"
        /\ ureq[p].id = << "x" >> /\ uitem[p] = <<>>
        /\ Failed(q) /\ uresp[q].error_code = "DDB_PUT_FAILED"
        /\ uitem[q] # uread[q]
        /\ table = StoredItems

\* new is old changed in what the patch names and in nothing else: every
\* effective key of the patch, a mapping-valued metadata aside, has the
\* patch's value; every field the patch does not name, and the protected
\* ones, are as in old; no field is gone and none has appeared unnamed.
OnlyPatched(old, body, new) ==
    /\ \A k \in Effective(body) :
          (k # "metadata" \/ ~IsDict(Get(body, k))) => Get(new, k) = Get(body, k)
    /\ \A k \in Keys(old) \ Effective(body) : Get(new, k) = Get(old, k)
    /\ Keys(new) = Keys(old) \cup Effective(body)

\* The table after p's write differs from the table before in p's record
\* at most.
OnlyOwnRecordWritten(p) ==
    /\ DOMAIN table' = DOMAIN table
    /\ \A id \in DOMAIN table : id # ureq[p].id => table'[id] = table[id]

\* C21 as stated: a successful update changes only what the patch names:
\* against the record stored just before the write, every non-protected
\* patch key other than a mapping-valued metadata has the patch's value,
\* every field not named keeps its value, no field is removed or
\* defaulted, and no other record is written.
C21_OnlyPatchedFieldsChange ==
    [][\A p \in Procs :
          Writes(p) =>
              /\ OnlyPatched(table[ureq[p].id], ureq[p].body, table'[ureq[p].id])
              /\ OnlyOwnRecordWritten(p)]_vars

\* C21 as amended: the same, against the record as the invocation read it,
\* which is the record stored just before the write unless another
\* invocation has written in between.
C21_OnlyPatchedFieldsChangeFromRead ==
    [][\A p \in Procs :
          Writes(p) =>
              /\ OnlyPatched(uread[p], ureq[p].body, table'[ureq[p].id])
              /\ OnlyOwnRecordWritten(p)]_vars

\* Reached: {name: "new", artifact_type: "code"} was applied to record x:
\* the name is the patch's, the type and the metadata are as stored, and
\* record z is untouched.
C21_Witness ==
    \E p \in Procs :
        /\ Updated(p) /\ ureq[p].id = << "x" >>
        /\ Keys(ureq[p].body) = {"name", "artifact_type"}
        /\ uread[p] = StoredX
        /\ table[<< "x" >>] = Put(StoredX, "name", StrV(<< "n", "e", "w" >>))
        /\ table[<< "z" >>] = StoredZ

\* ------------------------------------------------------------------------
\* Properties of the file selection
\* ------------------------------------------------------------------------

NamesOf(d) == {d[i].name : i \in 1..Len(d)}

ReadmeLike(path) == Contains(Lower(path), README)

\* a's lower-cased path is not after b's.
NotAfter(a, b) == ~StrLess(Lower(b), Lower(a))

\* The properties of C11 of one returned ordering.
ReadmeFirstOrdered(all_files, out) ==
    /\ \A i, j \in 1..Len(out) :
          i < j => /\ ReadmeLike(out[j].name) => ReadmeLike(out[i].name)
                   /\ (ReadmeLike(out[i].name) = ReadmeLike(out[j].name))
                         => NotAfter(out[i].name, out[j].name)
    /\ Len(out) < selMax =>
          \A path \in NamesOf(all_files) : ReadmeLike(path) => path \in NamesOf(out)
    /\ ((\E path \in NamesOf(all_files) : ReadmeLike(path)) /\ selMax >= 1)
          => (Len(out) >= 1 /\ ReadmeLike(out[1].name))

\* C11: with prioritize_readme true every file whose lower-cased path
\* contains "readme" is a candidate whatever its extension; in the returned
\* ordering each such file precedes every other file, each of the two
\* groups is in ascending order of lower-cased path, and the first entry is
\* README-like if there is a README-like file and max_files >= 1.
C11_ReadmeFirst ==
    selPri => /\ ("first" \in selDone => ReadmeFirstOrdered(selFiles, selOut))
              /\ ("again" \in selDone => ReadmeFirstOrdered(selAgain, selOutAgain))

\* Reached: d/ReadMe, without extension and after a.py in the alphabet,
\* and README.md are returned before a.py.
C11_Witness ==
    /\ selPri /\ "first" \in selDone
    /\ Len(selOut) = 3
    /\ selOut[1].name = << "d", "/", "R", "e", "a", "d", "M", "e" >>
    /\ selOut[2].name = << "R", "E", "A", "D", "M", "E", ".", "m", "d" >>
    /\ selOut[3].name = << "a", ".", "p", "y" >>
    /\ selFiles[1].name = << "a", ".", "p", "y" >>

\* C12: whatever the files, the extensions, prioritize_readme and
\* max_files, select_relevant_files returns at most max_files entries, each
\* of them one of the input files with its content unchanged.
C12_AtMostMaxFiles ==
    "first" \in selDone =>
        /\ Len(selOut) <= selMax
        /\ \A i \in 1..Len(selOut) : \E j \in 1..Len(selFiles) : selOut[i] = selFiles[j]

\* C13: two calls on the same set of (path, content) pairs in different
\* iteration orders, with the same extensions, max_files and
\* prioritize_readme, return the same entries in the same order.
C13_OrderIndependent ==
    selDone = {"first", "again"} => selOut = selOutAgain

====
